---- MODULE Spec2Model ----
(***************************************************************************)
(* The 1minAI chat-completions proxy: fastapi_server.py (framework-based)  *)
(* and simple_server.py (http.server based).  One completions request is   *)
(* followed from its arrival to the response that is written back.         *)
(*                                                                         *)
(* Text is a sequence of symbols.  A symbol is either a whitespace         *)
(* character (" " or "\n") or a run of non-whitespace characters, so that  *)
(* str.split(), "\n\n".join() and f-strings are computed on the text.      *)
(***************************************************************************)
EXTENDS Integers, Sequences, FiniteSets, TLC

\* Longest messages array a client sends.
MaxMsgs == 2
\* Latest reading of time.time() (seconds after the server started).
MaxClock == 1

VARIABLES
    server,            \* which of the two servers runs
    ONEMINAI_API_KEY,  \* TRUE iff the credential is configured (truthy)
    now,               \* the clock, int(time.time())
    pc,                \* where the handler of the request in flight is
    request,           \* the body of the request in flight
    payload,           \* the ProviderPayload built for it
    upstream_calls,    \* calls of the provider made for it
    upstream,          \* how the call of the provider ended
    ai_response,       \* what make_1minai_request of simple_server returned
    response,          \* the status and body written back
    get_reply,         \* the path and status of the latest GET
    models,            \* what the latest GET /v1/models was answered
    first_models       \* what the first GET /v1/models was answered

vars == <<server, ONEMINAI_API_KEY, now, pc, request, payload,
          upstream_calls, upstream, ai_response, response,
          get_reply, models, first_models>>

models_vars == <<get_reply, models, first_models>>

----------------------------------------------------------------------------
\* Text helpers

IsSpace(s) == s \in {" ", "\n"}

\* len(text.split()): the number of maximal runs of non-whitespace.
SplitCount(text) ==
    Cardinality({i \in 1..Len(text) :
                    /\ ~IsSpace(text[i])
                    /\ (i = 1 \/ IsSpace(text[i-1]))})

RECURSIVE Join(_, _)
\* sep.join(parts)
Join(parts, sep) ==
    IF Len(parts) = 0 THEN <<>>
    ELSE IF Len(parts) = 1 THEN parts[1]
    ELSE parts[1] \o sep \o Join(Tail(parts), sep)

\* A literal of the source, written word by word.
Words(ws) == Join([i \in 1..Len(ws) |-> <<ws[i]>>], <<" ">>)

RECURSIVE SumSeq(_)
SumSeq(ns) == IF Len(ns) = 0 THEN 0 ELSE ns[1] + SumSeq(Tail(ns))

SeqsUpTo(S, n) == UNION {[1..k -> S] : k \in 0..n}

----------------------------------------------------------------------------
\* Requests a client can send

Roles == {"system", "assistant", "user", "tool"}

\* A JSON string / a JSON null, each with the text an f-string renders it as.
JStr(text) == [isstr |-> TRUE, text |-> text]
JNull == [isstr |-> FALSE, text |-> <<"None">>]

StrContents == {<<>>, <<"a">>, <<"a", " ", "b", "\n", "c">>}

\* An element of the messages array that is not a JSON object.
NotObjectMsg == [isobj |-> FALSE, role |-> "user", content |-> JNull]

MessageValues ==
    {[isobj |-> TRUE, role |-> r, content |-> JStr(c)] :
        r \in Roles, c \in StrContents}
    \cup {[isobj |-> TRUE, role |-> "user", content |-> JNull]}
    \cup {NotObjectMsg}

\* A "model" value that is a JSON array or object instead of a string.
UnhashableModel == "<json array>"
ModelNames == {"gpt-4o", "1minai-gpt-4o", "unknown-model-xyz"}
ModelValues == ModelNames \cup {UnhashableModel}

DefaultModel == "gemini-2.0-flash-lite"

\* kind: "nonjson" (the body does not parse), "nonobject" (valid JSON that
\* is not an object), "object".
Requests ==
    {[kind |-> k, has_messages |-> FALSE, messages |-> <<>>,
      model |-> DefaultModel] : k \in {"nonjson", "nonobject"}}
    \cup {[kind |-> "object", has_messages |-> FALSE, messages |-> <<>>,
           model |-> m] : m \in ModelValues}
    \cup {[kind |-> "object", has_messages |-> TRUE, messages |-> ms,
           model |-> m] : ms \in SeqsUpTo(MessageValues, MaxMsgs),
                          m \in ModelValues}

NoRequest == [kind |-> "none", has_messages |-> FALSE, messages |-> <<>>,
              model |-> DefaultModel]

----------------------------------------------------------------------------
\* Request Translator

RoleLabel(role) ==
    IF role = "system" THEN "System:"
    ELSE IF role = "assistant" THEN "Assistant:"
    ELSE "User:"

\* f"<Label>: {content}"
prompt_part(msg) == <<RoleLabel(msg.role), " ">> \o msg.content.text

prompt_parts(messages) ==
    [i \in 1..Len(messages) |-> prompt_part(messages[i])]

\* The parts joined by a single newline.
prompt_of_one_newline(messages) == Join(prompt_parts(messages), <<"\n">>)

\* "\n\n".join(prompt_parts)
prompt_of(messages) == Join(prompt_parts(messages), <<"\n", "\n">>)

model_mapping_simple ==
    [m \in {"gemini-2.0-flash-lite", "gemini-2.0-flash", "gemini-1.5-flash",
            "gemini-1.5-pro", "gpt-4o-mini", "gpt-4o", "claude-3-5-sonnet",
            "claude-3-haiku"} |-> m]

model_mapping_fastapi ==
    [m \in {"1minai-gpt-4o-mini", "1minai-gpt-4o", "1minai-claude-3-5-sonnet",
            "1minai-claude-3-haiku", "gpt-4o-mini", "gpt-4o",
            "claude-3-5-sonnet", "claude-3-haiku", "gemini-2.0-flash-lite",
            "gemini-2.0-flash", "gemini-1.5-flash", "gemini-1.5-pro"} |->
        CASE m = "1minai-gpt-4o-mini" -> "gpt-4o-mini"
          [] m = "1minai-gpt-4o" -> "gpt-4o"
          [] m = "1minai-claude-3-5-sonnet" -> "claude-3-5-sonnet"
          [] m = "1minai-claude-3-haiku" -> "claude-3-haiku"
          [] OTHER -> m]

model_mapping(srv) ==
    IF srv = "fastapi" THEN model_mapping_fastapi ELSE model_mapping_simple

\* An unknown name passed through to the provider.
mapped_model_passthrough(srv, model) ==
    IF model \in DOMAIN model_mapping(srv)
    THEN model_mapping(srv)[model]
    ELSE model

\* model_mapping.get(model, "gemini-2.0-flash-lite")
mapped_model(srv, model) ==
    IF model \in DOMAIN model_mapping(srv)
    THEN model_mapping(srv)[model]
    ELSE "gemini-2.0-flash-lite"

NoPayload == [type |-> "none"]

ProviderPayload(srv, messages, model) ==
    [type |-> "CHAT_WITH_AI",
     model |-> mapped_model(srv, model),
     promptObject |-> [prompt |-> prompt_of(messages),
                       isMixed |-> FALSE,
                       webSearch |-> FALSE]]

----------------------------------------------------------------------------
\* Upstream replies (what urlopen can do)

JNullV == [t |-> "null"]
JText(text) == [t |-> "str", text |-> text]
JNum(digits) == [t |-> "num", text |-> <<digits>>]
JList(items) == [t |-> "list", items |-> items]
JObj(members) == [t |-> "obj", members |-> members]
EmptyObj == JObj([k \in {} |-> JNullV])

\* {"aiRecord": {"aiRecordDetail": {"resultObject": ro}}}
WithResultObject(ro) ==
    JObj("aiRecord" :> JObj("aiRecordDetail" :> JObj("resultObject" :> ro)))

HiThere == <<"Hi", " ", "there">>

UpstreamBodies ==
    { JNullV,
      EmptyObj,
      JObj("aiRecord" :> JNullV),
      JObj("aiRecord" :> EmptyObj),
      JObj("aiRecord" :> JObj("aiRecordDetail" :> JNullV)),
      JObj("aiRecord" :> JObj("aiRecordDetail" :> EmptyObj)),
      WithResultObject(JNullV),
      WithResultObject(JList(<<>>)),
      WithResultObject(JList(<<JText(HiThere), JText(<<"x">>)>>)),
      WithResultObject(JList(<<JText(<<>>)>>)),
      WithResultObject(JList(<<JNum("7")>>)) }

\* kind: "response" (urlopen returned a response object), "HTTPError" (4xx or
\* 5xx status), "URLError" (no connection, connect timeout), "timeout"
\* (socket.timeout while reading).
UpstreamOutcomes ==
    {[kind |-> "response", status |-> 200, json |-> TRUE, body |-> b] :
        b \in UpstreamBodies}
    \cup {[kind |-> "response", status |-> 200, json |-> FALSE, body |-> JNullV],
          [kind |-> "response", status |-> 204, json |-> FALSE, body |-> JNullV],
          [kind |-> "HTTPError", status |-> 503, json |-> FALSE, body |-> JNullV],
          [kind |-> "URLError", status |-> 0, json |-> FALSE, body |-> JNullV],
          [kind |-> "timeout", status |-> 0, json |-> FALSE, body |-> JNullV]}

NoOutcome == [kind |-> "none", status |-> 0, json |-> FALSE, body |-> JNullV]

----------------------------------------------------------------------------
\* Response Normalizer

NoResponseGenerated == Words(<<"No", "response", "generated">>)

TechnicalDifficulties ==
    Words(<<"I'm", "experiencing", "technical", "difficulties.",
            "Please", "try", "again", "later.">>)

Unavailable(code) ==
    Words(<<"1minAI", "API", "is", "currently", "unavailable", "(Error:">>)
    \o <<" ">> \o code \o <<").", " ">>
    \o Words(<<"Please", "check", "the", "API", "configuration.">>)

UnableToConnect ==
    Words(<<"I'm", "currently", "unable", "to", "connect", "to", "my", "AI",
            "service.", "Please", "try", "again", "later.">>)

UnexpectedError ==
    Words(<<"I", "encountered", "an", "unexpected", "error.",
            "Please", "try", "again", "later.">>)

\* str(v)
Str(v) == IF v.t = "null" THEN <<"None">> ELSE v.text

\* d.get(key, default); the caller checks that d is a dict.
Get(d, key, default) ==
    IF key \in DOMAIN d.members THEN d.members[key] ELSE default

Raised == [raised |-> TRUE, text |-> <<>>]
Returned(text) == [raised |-> FALSE, text |-> text]

\* Lines 100-109 of simple_server.py: an AttributeError where .get is called
\* on a value that is not a dict, else the response text.
response_text(result) ==
    IF result.t # "obj" THEN Raised
    ELSE LET ai_record == Get(result, "aiRecord", EmptyObj) IN
    IF ai_record.t # "obj" THEN Raised
    ELSE LET ai_record_detail == Get(ai_record, "aiRecordDetail", EmptyObj) IN
    IF ai_record_detail.t # "obj" THEN Raised
    ELSE LET result_object ==
                 Get(ai_record_detail, "resultObject", JList(<<>>)) IN
    IF result_object.t = "list" /\ Len(result_object.items) > 0
    THEN Returned(Str(result_object.items[1]))
    ELSE Returned(NoResponseGenerated)

\* What make_1minai_request of simple_server.py returns once urlopen is over.
ai_response_of(outcome) ==
    CASE outcome.kind = "response" /\ outcome.status = 200 ->
            IF ~outcome.json THEN UnexpectedError
            ELSE IF response_text(outcome.body).raised THEN UnexpectedError
            ELSE response_text(outcome.body).text
      [] outcome.kind = "response" /\ outcome.status # 200 ->
            TechnicalDifficulties
      [] outcome.kind = "HTTPError" -> Unavailable(<<"503">>)
      [] outcome.kind = "URLError" -> UnableToConnect
      [] OTHER -> UnexpectedError

----------------------------------------------------------------------------
\* Responses

\* f"chatcmpl-{int(time.time())}" has an integral timestamp,
\* f"chatcmpl-{datetime.utcnow().timestamp()}" a float one.
ResponseId(ts, integral) ==
    [prefix |-> "chatcmpl-", ts |-> ts, integral |-> integral]

Usage(p, c, t) ==
    [prompt_tokens |-> p, completion_tokens |-> c, total_tokens |-> t]

PlaceholderUsage == Usage(10, 20, 30)

ChatCompletionResponse(id, created, model, content, usage) ==
    [kind |-> "completion",
     id |-> id,
     object |-> "chat.completion",
     created |-> created,
     model |-> model,
     choices |-> << [index |-> 0,
                     message |-> [role |-> "assistant", content |-> content],
                     finish_reason |-> "stop"] >>,
     usage |-> usage]

\* {"detail": ...}, the body FastAPI writes for an HTTPException or a
\* request that fails validation.
DetailBody(detail) == [kind |-> "detail", detail |-> detail]

\* Nothing is written: the handler has not answered (yet), or it ended in an
\* exception and the connection is closed without a response.
NoBody == [kind |-> "none"]
NoResponse == [status |-> 0, body |-> NoBody]

NoAiResponse == [returned |-> FALSE, text |-> <<>>]
AiResponse(text) == [returned |-> TRUE, text |-> text]

KeyNotConfigured == Words(<<"ONEMINAI_API_KEY", "not", "configured">>)
MessagesRequired == Words(<<"Messages", "array", "is", "required">>)
JSONDecodeError == <<"JSONDecodeError">>
AttributeError == <<"AttributeError">>
TypeError == <<"TypeError">>
NameError == Words(<<"name", "'aiohttp'", "is", "not", "defined">>)
ValidationError == <<"RequestValidationError">>

\* f"I apologize, but I encountered an error: {str(e)}. Please try again."
Apology(e) ==
    Words(<<"I", "apologize,", "but", "I", "encountered", "an", "error:">>)
    \o <<" ">> \o e \o <<".", " ">> \o Words(<<"Please", "try", "again.">>)

\* f"Error processing request: {str(e)}"
ErrorProcessing(e) ==
    Words(<<"Error", "processing", "request:">>) \o <<" ">> \o e

----------------------------------------------------------------------------
\* simple_server.py

\* The credential is not looked at.
do_POST_failure_no_key_check(req, key) ==
    CASE req.kind = "nonjson" -> "json"
      [] req.kind = "nonobject" -> "crash"
      [] req.messages = <<>> -> "messages"
      [] \E i \in 1..Len(req.messages) : ~req.messages[i].isobj -> "attribute"
      [] req.model = UnhashableModel -> "type"
      [] OTHER -> ""

\* A make_1minai_request that raises on a content that is not a string.
do_POST_failure_content_checked(req, key) ==
    CASE req.kind = "nonjson" -> "json"
      [] req.kind = "nonobject" -> "crash"
      [] req.messages = <<>> -> "messages"
      [] ~key -> "key"
      [] \E i \in 1..Len(req.messages) : ~req.messages[i].isobj -> "attribute"
      [] \E i \in 1..Len(req.messages) : ~req.messages[i].content.isstr ->
            "attribute"
      [] req.model = UnhashableModel -> "type"
      [] OTHER -> ""

\* The exception do_POST meets before the upstream call, "" if none.
\* "crash" is the AttributeError of request_data.get on a body that is not
\* an object: the except block calls request_data.get again and raises too.
do_POST_failure(req, key) ==
    CASE req.kind = "nonjson" -> "json"
      [] req.kind = "nonobject" -> "crash"
      [] req.messages = <<>> -> "messages"
      [] ~key -> "key"
      [] \E i \in 1..Len(req.messages) : ~req.messages[i].isobj -> "attribute"
      [] req.model = UnhashableModel -> "type"
      [] OTHER -> ""

FailureText(f) ==
    CASE f = "json" -> JSONDecodeError
      [] f = "messages" -> MessagesRequired
      [] f = "key" -> KeyNotConfigured
      [] f = "attribute" -> AttributeError
      [] f = "type" -> TypeError
      [] OTHER -> <<>>

\* The except block answering 200.
error_response_200(req, e, t1, t2) ==
    [status |-> 200,
     body |-> ChatCompletionResponse(
                  ResponseId(t1, TRUE), t2,
                  IF req.kind = "object" THEN req.model ELSE DefaultModel,
                  Apology(e), PlaceholderUsage)]

\* The except block of do_POST.
error_response(req, e, t1, t2) ==
    [status |-> 500,
     body |-> ChatCompletionResponse(
                  ResponseId(t1, TRUE), t2,
                  IF req.kind = "object" THEN req.model ELSE DefaultModel,
                  Apology(e), PlaceholderUsage)]

\* len(prompt.split()), as fastapi_server.py counts.
content_tokens_of_prompt(messages) == SplitCount(prompt_of(messages))

\* sum(len(msg.get("content", "").split()) for msg in messages)
content_tokens(messages) ==
    SumSeq([i \in 1..Len(messages) |-> SplitCount(messages[i].content.text)])

\* The normal response naming the provider's model.
ok_response_provider_model(req, text, t1, t2) ==
    [status |-> 200,
     body |-> ChatCompletionResponse(
                  ResponseId(t1, TRUE), t2, mapped_model("simple", req.model),
                  text,
                  Usage(content_tokens(req.messages),
                        SplitCount(text),
                        content_tokens(req.messages) + SplitCount(text)))]

\* The normal response with the placeholder usage.
ok_response_placeholder(req, text, t1, t2) ==
    [status |-> 200,
     body |-> ChatCompletionResponse(
                  ResponseId(t1, TRUE), t2, req.model, text,
                  PlaceholderUsage)]

\* Lines 248-274 of do_POST.
ok_response(req, text, t1, t2) ==
    [status |-> 200,
     body |-> ChatCompletionResponse(
                  ResponseId(t1, TRUE), t2, req.model, text,
                  Usage(content_tokens(req.messages),
                        SplitCount(text),
                        content_tokens(req.messages) + SplitCount(text)))]

----------------------------------------------------------------------------
\* fastapi_server.py

\* Pydantic validation of the body against ChatCompletionRequest.
request_is_valid(req) ==
    /\ req.kind = "object"
    /\ req.has_messages
    /\ req.model # UnhashableModel
    /\ \A i \in 1..Len(req.messages) :
          req.messages[i].isobj /\ req.messages[i].content.isstr

\* The fallback of "except Exception" in chat_completions.
fallback_response(req, e, t1, t2) ==
    [status |-> 200,
     body |-> ChatCompletionResponse(
                  ResponseId(t1, FALSE), t2, req.model,
                  ErrorProcessing(e), PlaceholderUsage)]

----------------------------------------------------------------------------
\* GET /v1/models

SupportedModelIds ==
    <<"gemini-2.0-flash-lite", "gemini-2.0-flash", "gemini-1.5-flash",
      "gemini-1.5-pro", "gpt-4o-mini", "gpt-4o", "claude-3-5-sonnet",
      "claude-3-haiku">>

Model(id, created) ==
    [id |-> id, object |-> "model", created |-> created,
     owned_by |-> "1minai"]

\* The list literal of both servers: one int(time.time()) per entry, the
\* first k of them read before the clock advances from t1 to t2.
supported_models(t1, t2, k) ==
    [i \in 1..Len(SupportedModelIds) |->
        Model(SupportedModelIds[i], IF i <= k THEN t1 ELSE t2)]

\* The list returned whether or not the credential is configured.
get_1minai_models_no_key_check(key, t1, t2, k) == supported_models(t1, t2, k)

\* fastapi_server.py, get_1minai_models
get_1minai_models(key, t1, t2, k) ==
    IF ~key THEN <<>> ELSE supported_models(t1, t2, k)

ModelList(data) == [status |-> 200, body |-> [object |-> "list", data |-> data]]

\* No GET /v1/models has been answered.
NoModels == [status |-> 0, body |-> [object |-> "none", data |-> <<>>]]

\* fastapi_server.py, list_models: the list, or the one-entry fallback when
\* get_1minai_models returns nothing.
list_models_response(key, t1, t2, k) ==
    LET ms == get_1minai_models(key, t1, t2, k) IN
    IF ms # <<>> THEN ModelList(ms)
    ELSE ModelList(<<Model("gpt-4o-mini", t2)>>)

\* simple_server.py, do_GET for the path /v1/models
do_GET_response(t1, t2, k) == ModelList(supported_models(t1, t2, k))

\* The paths a client GETs; "/other" is any path without a handler.
GetPaths == {"/health", "/v1/models", "/", "/other"}

GetReply(path, status) == [path |-> path, status |-> status]
NoGet == GetReply("", 0)

----------------------------------------------------------------------------
\* The state machine

TypeOK ==
    /\ server \in {"fastapi", "simple"}
    /\ ONEMINAI_API_KEY \in BOOLEAN
    /\ now \in 0..MaxClock
    /\ pc \in {"idle", "received", "called", "done"}
    /\ request.kind \in {"none", "nonjson", "nonobject", "object"}
    /\ Len(request.messages) <= MaxMsgs
    /\ upstream_calls \in 0..1
    /\ upstream \in UpstreamOutcomes \cup {NoOutcome}
    /\ ai_response.returned \in BOOLEAN
    /\ response.status \in {0, 200, 422, 500}

Init ==
    /\ server \in {"fastapi", "simple"}
    /\ ONEMINAI_API_KEY \in BOOLEAN
    /\ now = 0
    /\ pc = "idle"
    /\ request = NoRequest
    /\ payload = NoPayload
    /\ upstream_calls = 0
    /\ upstream = NoOutcome
    /\ ai_response = NoAiResponse
    /\ response = NoResponse
    /\ get_reply = NoGet
    /\ models = NoModels
    /\ first_models = NoModels

\* The clock advances.
Tick ==
    /\ UNCHANGED models_vars
    /\ now < MaxClock
    /\ now' = now + 1
    /\ UNCHANGED <<server, ONEMINAI_API_KEY, pc, request, payload,
                   upstream_calls, upstream, ai_response, response>>

\* A client POSTs to /v1/chat/completions or /chat/completions.
Receive ==
    /\ UNCHANGED models_vars
    /\ pc = "idle"
    /\ \E req \in Requests : request' = req
    /\ pc' = "received"
    /\ UNCHANGED <<server, ONEMINAI_API_KEY, now, payload, upstream_calls,
                   upstream, ai_response, response>>

\* A handler whose payload, upstream reply and response outlive it.
Finish_keeps_locals ==
    /\ UNCHANGED models_vars
    /\ pc = "done"
    /\ pc' = "idle"
    /\ request' = NoRequest
    /\ UNCHANGED <<server, ONEMINAI_API_KEY, now, payload, upstream_calls,
                   upstream, ai_response, response>>

\* A server that waits for the next request only after a handler that wrote
\* a response.
Finish_after_response_only ==
    /\ UNCHANGED models_vars
    /\ pc = "done"
    /\ response # NoResponse
    /\ pc' = "idle"
    /\ request' = NoRequest
    /\ payload' = NoPayload
    /\ upstream_calls' = 0
    /\ upstream' = NoOutcome
    /\ ai_response' = NoAiResponse
    /\ response' = NoResponse
    /\ UNCHANGED <<server, ONEMINAI_API_KEY, now>>

\* The handler is over: its locals are gone and the server waits for the
\* next request.
Finish ==
    /\ UNCHANGED models_vars
    /\ pc = "done"
    /\ pc' = "idle"
    /\ request' = NoRequest
    /\ payload' = NoPayload
    /\ upstream_calls' = 0
    /\ upstream' = NoOutcome
    /\ ai_response' = NoAiResponse
    /\ response' = NoResponse
    /\ UNCHANGED <<server, ONEMINAI_API_KEY, now>>

\* The two clock readings of one response: the clock may advance in between.
Readings == {<<now, t2>> : t2 \in {t \in {now, now + 1} : t <= MaxClock}}

\* chat_completions as it would run with aiohttp imported: the request to
\* the provider is sent before the handler falls back.
chat_completions_aiohttp_imported ==
    /\ UNCHANGED models_vars
    /\ server = "fastapi"
    /\ pc = "received"
    /\ \E r \in Readings :
        /\ now' = r[2]
        /\ IF ~request_is_valid(request)
           THEN /\ response' = [status |-> 422,
                                body |-> DetailBody(ValidationError)]
                /\ payload' = NoPayload
                /\ UNCHANGED upstream_calls
           ELSE IF ~ONEMINAI_API_KEY
           THEN /\ response' = [status |-> 500,
                                body |-> DetailBody(KeyNotConfigured)]
                /\ payload' = NoPayload
                /\ UNCHANGED upstream_calls
           ELSE /\ payload' = ProviderPayload(server, request.messages,
                                              request.model)
                /\ upstream_calls' = upstream_calls + 1
                /\ response' = fallback_response(request, NameError,
                                                 r[1], r[2])
    /\ pc' = "done"
    /\ UNCHANGED <<server, ONEMINAI_API_KEY, request, upstream, ai_response>>

\* fastapi_server.py, chat_completions: the whole handler.  The upstream call
\* is never made, because the name aiohttp is not defined.
chat_completions ==
    /\ UNCHANGED models_vars
    /\ server = "fastapi"
    /\ pc = "received"
    /\ \E r \in Readings :
        /\ now' = r[2]
        /\ IF ~request_is_valid(request)
           THEN /\ response' = [status |-> 422,
                                body |-> DetailBody(ValidationError)]
                /\ payload' = NoPayload
           ELSE IF ~ONEMINAI_API_KEY
           THEN /\ response' = [status |-> 500,
                                body |-> DetailBody(KeyNotConfigured)]
                /\ payload' = NoPayload
           ELSE /\ payload' = ProviderPayload(server, request.messages,
                                              request.model)
                /\ response' = fallback_response(request, NameError,
                                                 r[1], r[2])
    /\ pc' = "done"
    /\ UNCHANGED <<server, ONEMINAI_API_KEY, request, upstream_calls, upstream,
                   ai_response>>

\* simple_server.py, do_POST up to the call of urlopen.
do_POST ==
    /\ UNCHANGED models_vars
    /\ server = "simple"
    /\ pc = "received"
    /\ LET f == do_POST_failure(request, ONEMINAI_API_KEY) IN
       IF f = ""
       THEN /\ payload' = ProviderPayload(server, request.messages,
                                          request.model)
            /\ upstream_calls' = upstream_calls + 1
            /\ pc' = "called"
            /\ UNCHANGED <<response, now>>
       ELSE /\ \E r \in Readings :
                 /\ now' = r[2]
                 /\ response' = IF f = "crash" THEN NoResponse
                                ELSE error_response(request, FailureText(f),
                                                    r[1], r[2])
            /\ pc' = "done"
            /\ UNCHANGED <<payload, upstream_calls>>
    /\ UNCHANGED <<server, ONEMINAI_API_KEY, request, upstream, ai_response>>

\* simple_server.py: urlopen returns or raises, make_1minai_request returns
\* its text and do_POST writes the response.
urlopen_returns ==
    /\ UNCHANGED models_vars
    /\ server = "simple"
    /\ pc = "called"
    /\ \E outcome \in UpstreamOutcomes, r \in Readings :
        /\ upstream' = outcome
        /\ ai_response' = AiResponse(ai_response_of(outcome))
        /\ now' = r[2]
        /\ response' =
             IF \A i \in 1..Len(request.messages) :
                    request.messages[i].content.isstr
             THEN ok_response(request, ai_response_of(outcome), r[1], r[2])
             ELSE error_response(request, AttributeError, r[1], r[2])
    /\ pc' = "done"
    /\ UNCHANGED <<server, ONEMINAI_API_KEY, request, payload, upstream_calls>>

\* fastapi_server.py: GET /v1/models
list_models ==
    /\ server = "fastapi"
    /\ pc = "idle"
    /\ \E r \in Readings, k \in 0..Len(SupportedModelIds) :
        /\ now' = r[2]
        /\ models' = list_models_response(ONEMINAI_API_KEY, r[1], r[2], k)
    /\ first_models' = IF first_models = NoModels THEN models'
                       ELSE first_models
    /\ get_reply' = GetReply("/v1/models", 200)
    /\ UNCHANGED <<server, ONEMINAI_API_KEY, pc, request, payload,
                   upstream_calls, upstream, ai_response, response>>

\* fastapi_server.py: GET /health
health_check ==
    /\ server = "fastapi"
    /\ pc = "idle"
    /\ get_reply' = GetReply("/health", 200)
    /\ UNCHANGED <<server, ONEMINAI_API_KEY, now, pc, request, payload,
                   upstream_calls, upstream, ai_response, response,
                   models, first_models>>

\* fastapi_server.py: GET /
root ==
    /\ server = "fastapi"
    /\ pc = "idle"
    /\ get_reply' = GetReply("/", 200)
    /\ UNCHANGED <<server, ONEMINAI_API_KEY, now, pc, request, payload,
                   upstream_calls, upstream, ai_response, response,
                   models, first_models>>

\* simple_server.py: do_GET, whatever the path
do_GET ==
    /\ server = "simple"
    /\ pc = "idle"
    /\ \E path \in GetPaths :
        IF path = "/v1/models"
        THEN /\ \E r \in Readings, k \in 0..Len(SupportedModelIds) :
                  /\ now' = r[2]
                  /\ models' = do_GET_response(r[1], r[2], k)
             /\ first_models' = IF first_models = NoModels THEN models'
                                ELSE first_models
             /\ get_reply' = GetReply(path, 200)
        ELSE /\ get_reply' = GetReply(path,
                                      IF path \in {"/health", "/"}
                                      THEN 200 ELSE 404)
             /\ UNCHANGED <<now, models, first_models>>
    /\ UNCHANGED <<server, ONEMINAI_API_KEY, pc, request, payload,
                   upstream_calls, upstream, ai_response, response>>

Next ==
    \/ Tick
    \/ Receive
    \/ chat_completions
    \/ do_POST
    \/ urlopen_returns
    \/ Finish

Spec == Init /\ [][Next]_vars

\* The completions endpoint with its scheduling: a handler that has started
\* runs on, urlopen returns or raises within its 60 s timeout, and the serve
\* loop takes the next connection when a handler is over, however it ended.
FairSpec ==
    /\ Spec
    /\ WF_vars(chat_completions)
    /\ WF_vars(do_POST)
    /\ WF_vars(urlopen_returns)
    /\ WF_vars(Finish)

\* The GET endpoints on their own: any number of GETs, at any times.
NextModels ==
    \/ Tick
    \/ list_models
    \/ health_check
    \/ root
    \/ do_GET

SpecModels == Init /\ [][NextModels]_vars

----------------------------------------------------------------------------
\* Properties

Done == pc = "done"
Body == response.body
IsCompletion == Body.kind = "completion"
Content == Body.choices[1].message.content

AllObjects(ms) == \A i \in 1..Len(ms) : ms[i].isobj
AllStrings(ms) == \A i \in 1..Len(ms) : ms[i].isobj /\ ms[i].content.isstr

\* A body every stage of either server accepts.
WellFormedRequest ==
    /\ request.kind = "object"
    /\ request.has_messages
    /\ request.messages # <<>>
    /\ AllStrings(request.messages)
    /\ request.model \in ModelNames

\* C1: every POST to a completions path, whatever its outcome, is answered
\* with a ChatCompletionResponse body holding exactly one choice whose content
\* is a string; never a bare error body, never no body.
C1_AlwaysChatCompletion ==
    Done => /\ IsCompletion
            /\ Len(Body.choices) = 1
            /\ Content \in Seq(STRING)

UpstreamFailed ==
    \/ upstream.kind \in {"HTTPError", "URLError", "timeout"}
    \/ upstream.kind = "response" /\ upstream.status # 200

FailureTexts ==
    {TechnicalDifficulties, Unavailable(<<"503">>), UnableToConnect,
     UnexpectedError}

IsConfigurationError ==
    \/ Body.kind = "detail" /\ Body.detail = KeyNotConfigured
    \/ IsCompletion /\ Content = Apology(KeyNotConfigured)

\* C3 as claimed: without the credential every request ends in the
\* ConfigurationError response and no upstream call is made.
C3_Original ==
    (~ONEMINAI_API_KEY /\ Done) =>
        /\ upstream_calls = 0
        /\ IsConfigurationError

\* The body gets as far as the credential check.
ReachesCredentialCheck ==
    IF server = "fastapi"
    THEN /\ request.kind = "object"
         /\ request.has_messages
         /\ AllStrings(request.messages)
         /\ request.model \in ModelNames
    ELSE /\ request.kind = "object"
         /\ request.messages # <<>>

\* C3 amended: without the credential no request ever builds a payload or
\* calls the provider, in either server; a request whose body gets as far as
\* the credential check (fastapi: it passes validation; simple: a JSON object
\* with a non-empty messages array) is answered 500 with the
\* "ONEMINAI_API_KEY not configured" error, and any other request ends in
\* its own validation failure, never in the ConfigurationError.
C3_Amended ==
    ~ONEMINAI_API_KEY =>
        /\ upstream_calls = 0
        /\ upstream = NoOutcome
        /\ payload = NoPayload
        /\ pc # "called"
        /\ Done => IF ReachesCredentialCheck
                   THEN response.status = 500 /\ IsConfigurationError
                   ELSE ~IsConfigurationError

C3_Witness ==
    /\ ~ONEMINAI_API_KEY
    /\ Done
    /\ server = "simple"
    /\ Len(request.messages) = 2
    /\ response.status = 500
    /\ IsConfigurationError

C5_ExactlyOneUpstreamCall ==
    /\ upstream_calls <= 1
    /\ (Done /\ ONEMINAI_API_KEY /\ WellFormedRequest) => upstream_calls = 1

\* C6: a request whose messages array is empty is rejected at the boundary
\* in both servers: no ProviderPayload is built and no upstream call is made.
C6_EmptyMessagesRejected ==
    (Done /\ request.kind = "object" /\ request.messages = <<>>) =>
        /\ payload = NoPayload
        /\ upstream_calls = 0

PayloadBuilt == payload.type = "CHAT_WITH_AI"
Prompt == payload.promptObject.prompt

NewlineCount(text) == Cardinality({i \in 1..Len(text) : text[i] = "\n"})

\* len(text.split("\n"))
LineCount(text) == NewlineCount(text) + 1

ClaimedLabel(role) ==
    CASE role = "system" -> "System:"
      [] role = "assistant" -> "Assistant:"
      [] OTHER -> "User:"

\* Where entry i starts: each earlier entry is a label, a space, its content
\* and the two newlines after it.
EntryStart(ms, i) ==
    1 + SumSeq([j \in 1..(i - 1) |-> Len(ms[j].content.text) + 4])

\* Entry i is "<Label>: <content_i>", followed by a blank line unless last.
EntryAt(text, ms, i) ==
    LET s == EntryStart(ms, i)
        c == ms[i].content.text
        e == s + 1 + Len(c)
    IN /\ e <= Len(text)
       /\ text[s] = ClaimedLabel(ms[i].role)
       /\ text[s + 1] = " "
       /\ SubSeq(text, s + 2, e) = c
       /\ IF i < Len(ms)
          THEN e + 2 <= Len(text) /\ text[e + 1] = "\n" /\ text[e + 2] = "\n"
          ELSE Len(text) = e

OneEntryPerMessage ==
    \A i \in 1..Len(request.messages) : EntryAt(Prompt, request.messages, i)

\* C7 as claimed: one labelled entry per message, in order, separated by a
\* blank line, and as many lines as messages.
C7_Original ==
    (PayloadBuilt /\ request.messages # <<>>) =>
        /\ OneEntryPerMessage
        /\ LineCount(Prompt) = Len(request.messages)

\* C7 amended: for every non-empty message sequence the prompt consists of
\* exactly one entry per message, in input order, separated by a blank line,
\* entry i being "<Label>: <content_i>" with Label System, Assistant, or User
\* for role user and any other role (a null content reads None); the prompt
\* of n messages has 2n - 1 lines plus one for every newline inside a
\* content, which is n only for a single message without a newline.
C7_Amended ==
    (PayloadBuilt /\ request.messages # <<>>) =>
        /\ OneEntryPerMessage
        /\ LineCount(Prompt) =
             2 * Len(request.messages) - 1
             + SumSeq([i \in 1..Len(request.messages) |->
                         NewlineCount(request.messages[i].content.text)])

C7_Witness ==
    /\ PayloadBuilt
    /\ Len(request.messages) = 2
    /\ request.messages[1].role = "tool"
    /\ request.messages[1].content.text = <<"a", " ", "b", "\n", "c">>
    /\ request.messages[2].role = "system"
    /\ Prompt = <<"User:", " ", "a", " ", "b", "\n", "c", "\n", "\n",
                  "System:", " ", "a">>
    /\ LineCount(Prompt) = 4

\* C8: model resolution is total: the provider model of the payload is the
\* alias-table value when the requested name is a key of the server's table
\* and gemini-2.0-flash-lite for every other name, and a request that is
\* otherwise translatable is translated whatever name it asks for.
C8_ModelResolution ==
    /\ PayloadBuilt =>
         /\ request.model \in DOMAIN model_mapping(server) =>
              payload.model = model_mapping(server)[request.model]
         /\ request.model \notin DOMAIN model_mapping(server) =>
              payload.model = "gemini-2.0-flash-lite"
         /\ request.model = "gpt-4o" => payload.model = "gpt-4o"
         /\ request.model = "unknown-model-xyz" =>
              payload.model = "gemini-2.0-flash-lite"
    /\ (Done /\ ONEMINAI_API_KEY /\ WellFormedRequest) => PayloadBuilt

C8_Witness ==
    /\ Done
    /\ PayloadBuilt
    /\ request.model = "unknown-model-xyz"
    /\ payload.model = "gemini-2.0-flash-lite"

\* The member of a JSON value, a missing one read as empty.
Member(v, key) ==
    IF v.t = "obj" /\ key \in DOMAIN v.members THEN v.members[key] ELSE JNullV

ClaimedContent(body) ==
    LET ro == Member(Member(Member(body, "aiRecord"), "aiRecordDetail"),
                     "resultObject")
    IN IF ro.t = "list" /\ Len(ro.items) > 0
       THEN Str(ro.items[1])
       ELSE NoResponseGenerated

\* C9: for every upstream 200 JSON body the normalized content is the string
\* form of the first element of aiRecord.aiRecordDetail.resultObject when
\* that is a non-empty list and "No response generated" otherwise.
C9_NormalizedContent ==
    (ai_response.returned /\ upstream.kind = "response"
       /\ upstream.status = 200 /\ upstream.json) =>
        ai_response.text = ClaimedContent(upstream.body)

\* A response built by the normal path from the provider's reply.
NonSynthetic ==
    /\ Done
    /\ response.status = 200
    /\ upstream.kind = "response"
    /\ upstream.status = 200

\* C10 as claimed: prompt_tokens counts the whitespace-separated tokens of
\* the prompt sent upstream, completion_tokens those of the content, and
\* total_tokens is their sum.
C10_Original ==
    NonSynthetic =>
        /\ Body.usage.prompt_tokens = SplitCount(Prompt)
        /\ Body.usage.completion_tokens = SplitCount(Content)
        /\ Body.usage.total_tokens =
             Body.usage.prompt_tokens + Body.usage.completion_tokens

\* C10 amended: in every response built by the normal path (only
\* simple_server.py builds one) prompt_tokens is the number of
\* whitespace-separated tokens of the message contents, which is that of the
\* prompt sent upstream less one role label per message; completion_tokens
\* is the number of tokens of the returned content and total_tokens their sum.
C10_Amended ==
    NonSynthetic =>
        /\ server = "simple"
        /\ Body.usage.prompt_tokens =
             SplitCount(Prompt) - Len(request.messages)
        /\ Body.usage.completion_tokens = SplitCount(Content)
        /\ Body.usage.total_tokens =
             Body.usage.prompt_tokens + Body.usage.completion_tokens

C10_Witness ==
    /\ NonSynthetic
    /\ Len(request.messages) = 2
    /\ SplitCount(Prompt) = 6
    /\ Content = HiThere
    /\ Body.usage = Usage(4, 2, 6)

ModelsAnswered == models # NoModels

\* C12 as claimed: without the credential GET /v1/models answers, in both
\* servers, a list of exactly one model entry.
C12_Original ==
    (ModelsAnswered /\ ~ONEMINAI_API_KEY) =>
        /\ models.status = 200
        /\ models.body.object = "list"
        /\ Len(models.body.data) = 1

\* C12 amended: GET /v1/models never fails: it answers 200 with
\* {object: "list", data}.  fastapi_server.py answers the single entry
\* gpt-4o-mini exactly when the credential is absent and the eight supported
\* models otherwise; simple_server.py answers the eight supported models
\* whether or not the credential is configured.
C12_Amended ==
    ModelsAnswered =>
        /\ models.status = 200
        /\ models.body.object = "list"
        /\ \A i \in 1..Len(models.body.data) :
              /\ models.body.data[i].object = "model"
              /\ models.body.data[i].owned_by = "1minai"
        /\ IF server = "fastapi" /\ ~ONEMINAI_API_KEY
           THEN /\ Len(models.body.data) = 1
                /\ models.body.data[1].id = "gpt-4o-mini"
           ELSE /\ Len(models.body.data) = 8
                /\ models.body.data[1].id = "gemini-2.0-flash-lite"
                /\ models.body.data[8].id = "claude-3-haiku"

C12_Witness ==
    /\ server = "fastapi"
    /\ ~ONEMINAI_API_KEY
    /\ ModelsAnswered
    /\ Len(models.body.data) = 1
    /\ models.body.data[1].created = 1

\* C13: any number of GET /v1/models, at any times, with the configuration
\* unchanged: every call's response body equals the first call's.
C13_SameListEachCall ==
    (ModelsAnswered /\ first_models # NoModels) =>
        models.body = first_models.body

\* What either handler answers to one request, given the credential, the
\* upstream reply to that request and the two clock readings; nothing else
\* is an input.
answer_of(srv, key, req, outcome, t1, t2) ==
    IF srv = "fastapi"
    THEN IF ~request_is_valid(req)
         THEN [status |-> 422, body |-> DetailBody(ValidationError)]
         ELSE IF ~key
         THEN [status |-> 500, body |-> DetailBody(KeyNotConfigured)]
         ELSE fallback_response(req, NameError, t1, t2)
    ELSE LET f == do_POST_failure(req, key) IN
         IF f = "crash" THEN NoResponse
         ELSE IF f # "" THEN error_response(req, FailureText(f), t1, t2)
         ELSE IF \A i \in 1..Len(req.messages) : req.messages[i].content.isstr
         THEN ok_response(req, ai_response_of(outcome), t1, t2)
         ELSE error_response(req, AttributeError, t1, t2)

NoLocals ==
    /\ payload = NoPayload
    /\ upstream_calls = 0
    /\ upstream = NoOutcome
    /\ ai_response = NoAiResponse
    /\ response = NoResponse

\* Only the two clock readings are read off the response itself.
C14_Independent ==
    /\ pc \in {"idle", "received"} => NoLocals
    /\ pc = "idle" => request = NoRequest
    /\ payload \in {NoPayload,
                    ProviderPayload(server, request.messages, request.model)}
    /\ Done => LET t1 == IF IsCompletion THEN Body.id.ts ELSE 0
                    t2 == IF IsCompletion THEN Body.created ELSE 0
                IN /\ t1 \in 0..MaxClock
                   /\ t2 \in 0..MaxClock
                   /\ response = answer_of(server, ONEMINAI_API_KEY, request,
                                           upstream, t1, t2)

C15_AcceptsNextRequest == (pc # "idle") ~> (pc = "idle")

C15_Witness ==
    /\ Done
    /\ server = "simple"
    /\ request.kind = "nonobject"
    /\ response = NoResponse

\* C16: for every message sequence and every requested model name, the
\* payload one server builds is the payload the other server builds from the
\* same request: same type, provider model, prompt, isMixed and webSearch.
C16_SamePayload ==
    PayloadBuilt =>
        \A srv \in {"fastapi", "simple"} :
            ProviderPayload(srv, request.messages, request.model) = payload

\* C17: in every chat-completion body either server emits, id is "chatcmpl-"
\* followed by an integer unix timestamp, and that integer is the body's
\* created field, even when the clock advances between the two readings.
C17_IdMatchesCreated ==
    (Done /\ IsCompletion) =>
        /\ Body.id.prefix = "chatcmpl-"
        /\ Body.id.integral
        /\ Body.id.ts = Body.created

IsNameErrorFallback ==
    /\ response.status = 200
    /\ IsCompletion
    /\ Content = ErrorProcessing(NameError)
    /\ Body.usage = Usage(10, 20, 30)

\* C18 as claimed: in fastapi_server.py with the credential configured, every
\* completions request ends in the "Error processing request" fallback (200,
\* usage 10/20/30) and no upstream call is made.
C18_Original ==
    (server = "fastapi" /\ ONEMINAI_API_KEY /\ Done) =>
        /\ IsNameErrorFallback
        /\ upstream_calls = 0

\* C18 amended: in fastapi_server.py with the credential configured, every
\* completions request whose body passes the validation of
\* ChatCompletionRequest ends in the "Error processing request" fallback
\* naming the undefined aiohttp (200, usage 10/20/30), and a body that fails
\* validation is answered 422; in no case is an upstream call made, and no
\* provider reply or content extracted from one ever exists.
C18_Amended ==
    /\ (server = "fastapi" /\ ONEMINAI_API_KEY /\ Done) =>
           IF request_is_valid(request)
           THEN IsNameErrorFallback
           ELSE response.status = 422 /\ ~IsCompletion
    /\ server = "fastapi" =>
           /\ upstream_calls = 0
           /\ upstream = NoOutcome
           /\ ai_response = NoAiResponse

C18_Witness ==
    /\ server = "fastapi"
    /\ ONEMINAI_API_KEY
    /\ Done
    /\ request_is_valid(request)
    /\ request.messages # <<>>
    /\ IsNameErrorFallback
    /\ payload = ProviderPayload(server, request.messages, request.model)

\* simple_server.py with the credential, and a body whose messages is a list
\* of objects.
ListOfObjects ==
    /\ server = "simple"
    /\ ONEMINAI_API_KEY
    /\ request.kind = "object"
    /\ request.has_messages
    /\ AllObjects(request.messages)

\* make_1minai_request was called (do_POST refuses an empty list before the
\* call), the upstream call was made and a string came back.
ReturnedString ==
    request.messages # <<>> =>
        /\ upstream_calls = 1
        /\ upstream \in UpstreamOutcomes
        /\ ai_response = AiResponse(ai_response_of(upstream))

====
